---------------------------- MODULE Spec2Model ----------------------------
(***************************************************************************)
(* A model of backend/server.py: the registration, chat, upload and        *)
(* websearch handlers, the four history reads, and the storage codec       *)
(* (prepare_for_mongo on the way in, datetime.fromisoformat on the way     *)
(* out).  Every await of a handler is a step of its own, so that handlers  *)
(* of concurrent requests interleave as the event loop lets them.          *)
(*                                                                         *)
(* Python values held in a dict are tagged with their Python type, as the  *)
(* code tests isinstance() on them: Str(s), NoneVal, and a datetime.       *)
(* Texts are TLA+ strings; f-strings are concatenations (\o).              *)
(***************************************************************************)
EXTENDS Integers, Sequences, FiniteSets, TLC

VARIABLES
    users,           \* db.users: the documents, in insertion order
    chat_history,    \* db.chat_history
    file_metadata,   \* db.file_metadata
    search_results,  \* db.search_results
    uploads,         \* the paths under /app/uploads that hold a file
    llm_calls,       \* every send_message made: session, model, text, outcome
    req,             \* the request slots: each handler's locals and position
    now,             \* the time that has passed: one unit per handler step
    uuid_ctr         \* how many uuid4() values were drawn

vars == <<users, chat_history, file_metadata, search_results, uploads,
          llm_calls, req, now, uuid_ctr>>

db == <<users, chat_history, file_metadata, search_results>>

-----------------------------------------------------------------------------
(* Bounds of the model. *)

\* Request slots: each serves one request; any number of them is in flight
\* at once.
MaxReqs == 2
\* The history a long-running service starts from (SpecHist): the chats and
\* the searches of its first user, and the chats of its second.
PreChat == 100
PreSearch == 50
PreOther == 2
\* The steps of the handlers within one tick of the wall clock.
ClockResolution == 2

-----------------------------------------------------------------------------
(* Python values. *)

Str(s) == [type |-> "str", val |-> s]
NoneVal == [type |-> "NoneType"]

Min(a, b) == IF a <= b THEN a ELSE b

\* The n-th character of s, as a one-character string.
Char(s, n) == SubSeq(s, n, n)

Digit(d) == Char("0123456789", d + 1)

DigitVal(c) ==
    CASE c = "0" -> 0 [] c = "1" -> 1 [] c = "2" -> 2 [] c = "3" -> 3
      [] c = "4" -> 4 [] c = "5" -> 5 [] c = "6" -> 6 [] c = "7" -> 7
      [] c = "8" -> 8 [] c = "9" -> 9

\* "%0<w>d" % n
RECURSIVE Pad(_, _)
Pad(n, w) == IF w = 0 THEN "" ELSE Pad(n \div 10, w - 1) \o Digit(n % 10)

\* int(s) of a string of decimal digits
RECURSIVE Num(_)
Num(s) == IF s = "" THEN 0
          ELSE 10 * Num(SubSeq(s, 1, Len(s) - 1)) + DigitVal(Char(s, Len(s)))

\* The code point of a character of a stored timestamp or identifier.
Ord(c) ==
    CASE c = "+" -> 43 [] c = "-" -> 45 [] c = "." -> 46 [] c = ":" -> 58
      [] c = "T" -> 84 [] c = "_" -> 95
      [] OTHER -> 48 + DigitVal(c)

\* a < b as the store orders two strings: by code point, a proper prefix first.
RECURSIVE StrLess(_, _)
StrLess(a, b) ==
    IF b = "" THEN FALSE
    ELSE IF a = "" THEN TRUE
    ELSE IF Char(a, 1) = Char(b, 1) THEN StrLess(Tail(a), Tail(b))
    ELSE Ord(Char(a, 1)) < Ord(Char(b, 1))

-----------------------------------------------------------------------------
(* datetime: datetime.now(timezone.utc), isoformat(), fromisoformat(). *)

datetime(y, mo, d, h, mi, s, us, tz) ==
    [type |-> "datetime", year |-> y, month |-> mo, day |-> d, hour |-> h,
     minute |-> mi, second |-> s, microsecond |-> us, tzinfo |-> tz]

\* The wall clock after t ticks: half a second per tick from
\* 2024-01-01T00:00:00Z, within that day.
utcnow(t) ==
    datetime(2024, 1, 1, (t \div 7200) % 24, (t \div 120) % 60,
             (t \div 2) % 60, (t % 2) * 500000, "UTC")

\* datetime.isoformat() of an aware UTC datetime: the microseconds are left
\* out when they are zero.
\* An ISO text to the second.
isoformat_seconds(dt) ==
    Pad(dt.year, 4) \o "-" \o Pad(dt.month, 2) \o "-" \o Pad(dt.day, 2)
    \o "T" \o Pad(dt.hour, 2) \o ":" \o Pad(dt.minute, 2) \o ":"
    \o Pad(dt.second, 2) \o "+00:00"

isoformat(dt) ==
    Pad(dt.year, 4) \o "-" \o Pad(dt.month, 2) \o "-" \o Pad(dt.day, 2)
    \o "T" \o Pad(dt.hour, 2) \o ":" \o Pad(dt.minute, 2) \o ":"
    \o Pad(dt.second, 2)
    \o (IF dt.microsecond # 0 THEN "." \o Pad(dt.microsecond, 6) ELSE "")
    \o "+00:00"

\* datetime.fromisoformat() on what isoformat() wrote.
fromisoformat(s) ==
    LET frac == Len(s) >= 20 /\ Char(s, 20) = "."
        tz   == SubSeq(s, IF frac THEN 27 ELSE 20, Len(s))
    IN  datetime(Num(SubSeq(s, 1, 4)), Num(SubSeq(s, 6, 7)),
                 Num(SubSeq(s, 9, 10)), Num(SubSeq(s, 12, 13)),
                 Num(SubSeq(s, 15, 16)), Num(SubSeq(s, 18, 19)),
                 IF frac THEN Num(SubSeq(s, 21, 26)) ELSE 0,
                 IF tz = "+00:00" THEN "UTC" ELSE tz)

\* str(uuid.uuid4()): the n-th value drawn.  Draws never repeat.
uuid4(n) == Pad(n, 8) \o "-0000-4000-8000-000000000000"

-----------------------------------------------------------------------------
(* The pydantic models.  A model object and its .dict() are the same field  *)
(* map here; the default factories draw the id and read the clock.          *)

User(id, user_data, chat_id, created_at) ==
    [id |-> Str(id), first_name |-> user_data.first_name,
     username |-> user_data.username, phone |-> user_data.phone,
     chat_id |-> Str(chat_id), created_at |-> created_at]

ChatMessage(id, user_id, message, response, timestamp) ==
    [id |-> Str(id), user_id |-> user_id, message |-> message,
     response |-> response, timestamp |-> timestamp]

FileMetadata(id, user_id, filename, description, file_path, file_type, uploaded_at) ==
    [id |-> Str(id), user_id |-> user_id, filename |-> filename,
     description |-> description, file_path |-> file_path,
     file_type |-> file_type, uploaded_at |-> uploaded_at]

SearchResult(id, user_id, query, summary, timestamp) ==
    [id |-> Str(id), user_id |-> user_id, query |-> query,
     summary |-> summary, timestamp |-> timestamp]

UserFields == {"id", "first_name", "username", "phone", "chat_id",
               "created_at"}
ChatMessageFields == {"id", "user_id", "message", "response", "timestamp"}
FileMetadataFields == {"id", "user_id", "filename", "description",
                       "file_path", "file_type", "uploaded_at"}
SearchResultFields == {"id", "user_id", "query", "summary", "timestamp"}

\* Model(**data): the declared fields are kept, any other key (the store's
\* _id) is ignored.
FromDict(fields, data) == [k \in fields |-> data[k]]

-----------------------------------------------------------------------------
(* The storage codec. *)

\* prepare_for_mongo(data): each datetime value becomes its ISO text, each
\* nested dict is converted in turn, anything else is kept.
RECURSIVE prepare_for_mongo(_)
prepare_for_mongo(data) ==
    [k \in DOMAIN data |->
        IF data[k].type = "datetime" THEN Str(isoformat(data[k]))
        ELSE IF data[k].type = "dict"
             THEN [type |-> "dict", val |-> prepare_for_mongo(data[k].val)]
        ELSE data[k]]

\* The read side of the codec: a textual value of `field` is parsed back.
parse_timestamp(data, field) ==
    IF data[field].type = "str"
    THEN [data EXCEPT ![field] = fromisoformat(data[field].val)]
    ELSE data

-----------------------------------------------------------------------------
(* The document store (motor): insert_one, find_one, find().sort().to_list() *)

ObjectId(n) == [type |-> "ObjectId", n |-> n]

\* The documents the store holds, over all its collections.
n_documents ==
    Len(users) + Len(chat_history) + Len(file_metadata) + Len(search_results)

\* A document as the store holds it: with an _id of the store's own.
Stored(doc, oid) ==
    [k \in DOMAIN doc \cup {"_id"} |-> IF k = "_id" THEN oid ELSE doc[k]]

\* A store write that keeps one document per user: an upsert on user_id.
insert_upsert(coll, doc, oid) ==
    IF "user_id" \in DOMAIN doc
          /\ \E k \in 1..Len(coll) : coll[k].user_id = doc.user_id
    THEN [k \in 1..Len(coll) |->
             IF coll[k].user_id = doc.user_id THEN Stored(doc, oid)
             ELSE coll[k]]
    ELSE Append(coll, Stored(doc, oid))

\* The store appends the document.
insert(coll, doc, oid) == Append(coll, Stored(doc, oid))

\* insert_one(doc)
insert_one(coll, doc) == insert(coll, doc, ObjectId(n_documents + 1))

\* A find_one whose filter is ignored: the first document, or None.
find_one_unfiltered(coll, field, value) ==
    IF coll = <<>> THEN NoneVal ELSE coll[1]

\* A find_one that matches on a prefix: the first document whose field is
\* the beginning of the value, or None.
find_one_prefix(coll, field, value) ==
    LET starts(d) ==
            /\ Len(d[field].val) <= Len(value.val)
            /\ SubSeq(value.val, 1, Len(d[field].val)) = d[field].val
    IN  IF \E k \in 1..Len(coll) : starts(coll[k])
        THEN coll[CHOOSE k \in 1..Len(coll) :
                      /\ starts(coll[k])
                      /\ \A j \in 1..(k - 1) : ~starts(coll[j])]
        ELSE NoneVal

\* find_one({field: value}): the first match, or None.
find_one(coll, field, value) ==
    LET hits == {i \in 1..Len(coll) : coll[i][field] = value}
    IN  IF hits = {} THEN NoneVal
        ELSE coll[CHOOSE i \in hits : \A j \in hits : i <= j]

\* How the store orders two values of a sort key: texts by code point.
KeyLess(a, b) == a.val # b.val /\ StrLess(a.val, b.val)

\* A sort that is ascending whatever the direction asked for.
Before_ascending(e, d, field, direction, ties_natural) ==
    IF e[field] = d[field] THEN ties_natural
    ELSE KeyLess(e[field], d[field])

\* Whether document e comes before d in a sort on `field` in `direction`
\* (1 ascending, -1 descending).  The store leaves the order of equal keys
\* open: ties_natural keeps them in insertion order, otherwise reversed.
Before(e, d, field, direction, ties_natural) ==
    IF e[field] = d[field] THEN ties_natural
    ELSE IF direction = 1 THEN KeyLess(e[field], d[field])
    ELSE KeyLess(d[field], e[field])

\* How many elements of the sorted sequence s come before d, looking down
\* from s[i]: the elements that come before d are a prefix of s.
RECURSIVE BeforeFromEnd(_, _, _, _, _, _)
BeforeFromEnd(s, d, i, field, direction, ties_natural) ==
    IF i = 0 \/ Before(s[i], d, field, direction, ties_natural) THEN i
    ELSE BeforeFromEnd(s, d, i - 1, field, direction, ties_natural)

\* The same count, looking up from s[i].
RECURSIVE BeforeFromStart(_, _, _, _, _, _)
BeforeFromStart(s, d, i, field, direction, ties_natural) ==
    IF i > Len(s) \/ ~Before(s[i], d, field, direction, ties_natural)
    THEN i - 1
    ELSE BeforeFromStart(s, d, i + 1, field, direction, ties_natural)

\* The sorted sequence s with d put in its place.
InsertSorted(s, d, field, direction, ties_natural) ==
    LET n == IF direction = 1
             THEN BeforeFromEnd(s, d, Len(s), field, direction, ties_natural)
             ELSE BeforeFromStart(s, d, 1, field, direction, ties_natural)
    IN  SubSeq(s, 1, n) \o <<d>> \o SubSeq(s, n + 1, Len(s))

\* docs[lo..hi] put in their places in the sorted sequence s, one by one.
RECURSIVE InsertRange(_, _, _, _, _, _, _)
InsertRange(s, docs, lo, hi, field, direction, ties_natural) ==
    IF lo > hi THEN s
    ELSE IF lo = hi
    THEN InsertSorted(s, docs[lo], field, direction, ties_natural)
    ELSE LET mid  == (lo + hi) \div 2
             left == InsertRange(s, docs, lo, mid, field, direction,
                                 ties_natural)
         IN  IF Len(left) = Len(s) + mid - lo + 1
             THEN InsertRange(left, docs, mid + 1, hi, field, direction,
                              ties_natural)
             ELSE <<>>

\* cursor.sort(field, direction): an insertion sort.
sort(docs, field, direction, ties_natural) ==
    InsertRange(<<>>, docs, 1, Len(docs), field, direction, ties_natural)

\* A find whose filter is ignored.
find_all(coll, user_id) == coll

\* find({"user_id": user_id})
find(coll, user_id) == SelectSeq(coll, LAMBDA d : d.user_id = user_id)

\* A limit that keeps the end of the cursor.
to_list_last(cursor, length) ==
    SubSeq(cursor, Len(cursor) - Min(Len(cursor), length) + 1, Len(cursor))

\* cursor.to_list(length)
to_list(cursor, length) == SubSeq(cursor, 1, Min(Len(cursor), length))

-----------------------------------------------------------------------------
(* The request slots. *)

Slots == 1..MaxReqs

\* A slot no request has used yet.
NoRequest ==
    [op |-> "none", pc |-> "idle", args |-> NoneVal, user |-> NoneVal,
     file_path |-> NoneVal, description |-> NoneVal, rec |-> NoneVal,
     doc |-> NoneVal, exc |-> "", status_code |-> 0, body |-> NoneVal]

\* Slot r takes the next request: the slots are used in order.
CanStart(r) ==
    /\ req[r].pc = "idle"
    /\ \A q \in 1..(r - 1) : req[q].pc # "idle"

\* The request of slot r, with its handler named.
Started(op, args) == [NoRequest EXCEPT !.op = op, !.args = args]

\* The handler returns `body` (200).
Return(q, body) == [q EXCEPT !.pc = "done", !.status_code = 200, !.body = body]

\* raise HTTPException(status_code=...), re-raised by `except HTTPException`.
RaiseHTTP(q, status_code) ==
    [q EXCEPT !.pc = "done", !.status_code = status_code,
              !.exc = "HTTPException"]

\* `call` raised: `except Exception` turns it into a 500.
Raise500(q, call) ==
    [q EXCEPT !.pc = "done", !.status_code = 500, !.exc = call]

\* datetime.now(timezone.utc).  Time passes with every step of a handler and
\* the clock ticks once in ClockResolution steps: two readings taken within
\* one tick are equal, and the clock does not run backwards.
datetime_now == utcnow(now \div ClockResolution)

\* A step of a handler takes time.
TimePasses == now' = now + 1

-----------------------------------------------------------------------------
(* The inputs. *)

\* The user ids a request may name: ids registration hands out, and others.
UserIds == {uuid4(1), uuid4(3)}

UserCreates ==
    {[first_name |-> Str("Ana"), username |-> Str("ana"), phone |-> NoneVal]}

Messages == {"hi"}
Queries == {"tla"}
Filenames == {"cat.png"}
ContentTypes == {"image/png", "text/plain"}

\* What a model backend answers, when it answers.
Replies == {"hello", ""}

-----------------------------------------------------------------------------
(* The model backends (LlmChat.send_message). *)

\* The log entry of one send_message by slot r; `reply` is None when it raised.
LlmCall(r, session_id, model, text, file_contents, reply) ==
    [req |-> r, session_id |-> session_id, model |-> model, text |-> text,
     file_contents |-> file_contents, reply |-> reply]

\* The outcomes of a send_message: a reply, or None for an exception.
LlmOutcomes == {Str(t) : t \in Replies} \cup {NoneVal}

-----------------------------------------------------------------------------
(* POST /users: create_user *)

\* The request arrives; the User is built and encoded, up to the insert.
CreateUserBegin(r, user_data) ==
    /\ CanStart(r)
    /\ LET user == User(uuid4(uuid_ctr + 1), user_data, uuid4(uuid_ctr + 2),
                        datetime_now)
       IN  req' = [req EXCEPT ![r] =
               [Started("create_user", user_data) EXCEPT
                   !.pc = "insert_one", !.rec = user,
                   !.doc = prepare_for_mongo(user)]]
    /\ TimePasses
    /\ uuid_ctr' = uuid_ctr + 2
    /\ UNCHANGED <<db, uploads, llm_calls>>

\* await db.users.insert_one(user_dict) ends.
CreateUserInsert(r) ==
    /\ req[r].op = "create_user" /\ req[r].pc = "insert_one"
    /\ \E raised \in BOOLEAN :
         IF raised
         THEN /\ req' = [req EXCEPT ![r] = Raise500(@, "insert_one")]
              /\ UNCHANGED users
         ELSE /\ users' = insert_one(users, req[r].doc)
              /\ req' = [req EXCEPT ![r] = Return(@, @.rec)]
    /\ TimePasses
    /\ UNCHANGED <<chat_history, file_metadata, search_results, uploads,
                   llm_calls, uuid_ctr>>

(* GET /users/{user_id}: get_user *)
GetUser(r, user_id) ==
    /\ CanStart(r)
    /\ \E raised \in BOOLEAN :
         LET q         == Started("get_user", [user_id |-> Str(user_id)])
             user_data == find_one(users, "id", Str(user_id))
         IN  req' = [req EXCEPT ![r] =
                 IF raised THEN Raise500(q, "find_one")
                 ELSE IF user_data = NoneVal THEN RaiseHTTP(q, 404)
                 ELSE Return([q EXCEPT !.user = user_data],
                             FromDict(UserFields,
                                      parse_timestamp(user_data,
                                                      "created_at")))]
    /\ TimePasses
    /\ UNCHANGED <<db, uploads, llm_calls, uuid_ctr>>

-----------------------------------------------------------------------------
(* Session namespacing: the session_id each feature hands to LlmChat. *)

chat_session_id(user_id) == user_id
file_analysis_session_id(user_id) == user_id \o "_file_analysis"
\* A search that shares the chat's session.
search_session_id_of_chat(user_id) == user_id

search_session_id(user_id) == user_id \o "_search"

-----------------------------------------------------------------------------
(* POST /chat: chat_with_ai *)

\* The request arrives and await db.users.find_one ends.
ChatFindUser(r, user_id, message) ==
    /\ CanStart(r)
    /\ \E raised \in BOOLEAN :
         LET q    == Started("chat", [user_id |-> Str(user_id),
                                      message |-> Str(message)])
             user == find_one(users, "id", Str(user_id))
         IN  req' = [req EXCEPT ![r] =
                 IF raised THEN Raise500(q, "find_one")
                 ELSE IF user = NoneVal THEN RaiseHTTP(q, 404)
                 ELSE [q EXCEPT !.pc = "send_message", !.user = user]]
    /\ TimePasses
    /\ UNCHANGED <<db, uploads, llm_calls, uuid_ctr>>

\* A chat that answers with an apology when the backend raised, as the
\* upload does with its fallback description.
ChatSendMessageWithFallback(r) ==
    /\ req[r].op = "chat" /\ req[r].pc = "send_message"
    /\ \E ai_response \in LlmOutcomes :
         LET response == IF ai_response = NoneVal THEN Str("Sorry")
                         ELSE ai_response
             chat_message ==
                 ChatMessage(uuid4(uuid_ctr + 1), req[r].args.user_id,
                             req[r].args.message, response, datetime_now)
         IN  /\ llm_calls' = Append(llm_calls,
                    LlmCall(r, req[r].args.user_id.val, "gpt-5",
                            req[r].args.message.val, NoneVal, ai_response))
             /\ req' = [req EXCEPT ![r] =
                    [@ EXCEPT !.pc = "insert_one", !.rec = chat_message,
                              !.doc = prepare_for_mongo(chat_message)]]
    /\ uuid_ctr' = uuid_ctr + 1
    /\ TimePasses
    /\ UNCHANGED <<db, uploads>>

\* await chat.send_message ends; on a reply the ChatMessage is built and
\* encoded, up to the insert.
ChatSendMessage(r) ==
    /\ req[r].op = "chat" /\ req[r].pc = "send_message"
    /\ \E ai_response \in LlmOutcomes :
         /\ llm_calls' = Append(llm_calls,
                LlmCall(r, chat_session_id(req[r].args.user_id.val), "gpt-5",
                        req[r].args.message.val, NoneVal, ai_response))
         /\ IF ai_response = NoneVal
            THEN /\ req' = [req EXCEPT ![r] = Raise500(@, "send_message")]
                 /\ UNCHANGED uuid_ctr
            ELSE LET chat_message ==
                       ChatMessage(uuid4(uuid_ctr + 1), req[r].args.user_id,
                                   req[r].args.message, ai_response,
                                   datetime_now)
                 IN  /\ req' = [req EXCEPT ![r] =
                           [@ EXCEPT !.pc = "insert_one",
                                     !.rec = chat_message,
                                     !.doc = prepare_for_mongo(chat_message)]]
                     /\ uuid_ctr' = uuid_ctr + 1
    /\ TimePasses
    /\ UNCHANGED <<db, uploads>>

\* await db.chat_history.insert_one(chat_dict) ends.
ChatInsert(r) ==
    /\ req[r].op = "chat" /\ req[r].pc = "insert_one"
    /\ \E raised \in BOOLEAN :
         IF raised
         THEN /\ req' = [req EXCEPT ![r] = Raise500(@, "insert_one")]
              /\ UNCHANGED chat_history
         ELSE /\ chat_history' = insert_one(chat_history, req[r].doc)
              /\ req' = [req EXCEPT ![r] = Return(@, @.rec)]
    /\ TimePasses
    /\ UNCHANGED <<users, file_metadata, search_results, uploads, llm_calls,
                   uuid_ctr>>

\* A history read answers with a list of model objects.
List(items) == [type |-> "list", items |-> items]

\* The documents of a history read, decoded.
Decoded(docs, fields, field) ==
    [i \in 1..Len(docs) |-> FromDict(fields, parse_timestamp(docs[i], field))]

ChatHistoryLimit == 100

(* GET /chat/{user_id}: get_chat_history *)
GetChatHistory(r, user_id) ==
    /\ CanStart(r)
    /\ \E raised \in BOOLEAN, ties_natural \in BOOLEAN :
         LET q == Started("get_chat_history", [user_id |-> Str(user_id)])
             chat_history_list ==
                 to_list(sort(find(chat_history, Str(user_id)), "timestamp",
                              1, ties_natural), ChatHistoryLimit)
         IN  req' = [req EXCEPT ![r] =
                 IF raised THEN Raise500(q, "find")
                 ELSE Return(q, List(Decoded(chat_history_list,
                                             ChatMessageFields,
                                             "timestamp")))]
    /\ TimePasses
    /\ UNCHANGED <<db, uploads, llm_calls, uuid_ctr>>

-----------------------------------------------------------------------------
(* POST /upload: upload_and_analyze_file *)

\* A gate that lets plain text through.
allowed_types_with_text ==
    {"image/jpeg", "image/png", "application/pdf", "text/plain"}

allowed_types == {"image/jpeg", "image/png", "application/pdf"}

\* upload_dir / f"{uuid.uuid4()}_{file.filename}"
upload_path(token, filename) == "/app/uploads/" \o token \o "_" \o filename

\* A fallback that leaves the filename out.
fallback_description_without_filename(file_type, filename) ==
    "Uploaded " \o file_type \o " file"

\* The description used when the analysis raised.
fallback_description(file_type, filename) ==
    "Uploaded " \o file_type \o " file: " \o filename

analysis_prompt(file_type) ==
    "Please analyze this " \o file_type
    \o " file and describe its content in detail."

\* The request arrives, await db.users.find_one ends and the content type is
\* checked; an allowed file gets its path, up to the write.
UploadFindUser(r, user_id, filename, content_type) ==
    /\ CanStart(r)
    /\ \E raised \in BOOLEAN :
         LET q    == Started("upload", [user_id |-> Str(user_id),
                                        filename |-> Str(filename),
                                        content_type |-> Str(content_type)])
             user == find_one(users, "id", Str(user_id))
         IN  IF raised
             THEN /\ req' = [req EXCEPT ![r] = Raise500(q, "find_one")]
                  /\ UNCHANGED uuid_ctr
             ELSE IF user = NoneVal
             THEN /\ req' = [req EXCEPT ![r] = RaiseHTTP(q, 404)]
                  /\ UNCHANGED uuid_ctr
             ELSE IF content_type \notin allowed_types
             THEN /\ req' = [req EXCEPT ![r] =
                        RaiseHTTP([q EXCEPT !.user = user], 400)]
                  /\ UNCHANGED uuid_ctr
             ELSE /\ req' = [req EXCEPT ![r] =
                        [q EXCEPT !.pc = "write", !.user = user,
                                  !.file_path =
                                      Str(upload_path(uuid4(uuid_ctr + 1),
                                                      filename))]]
                  /\ uuid_ctr' = uuid_ctr + 1
    /\ TimePasses
    /\ UNCHANGED <<db, uploads, llm_calls>>

\* mkdir, aiofiles.open(file_path, 'wb') and await f.write(content) end: the
\* file is written, or one of them raised, before or after the file was
\* created.
UploadWrite(r) ==
    /\ req[r].op = "upload" /\ req[r].pc = "write"
    /\ \E outcome \in {"written", "raised", "raised_partial"} :
         /\ uploads' = IF outcome = "raised" THEN uploads
                       ELSE uploads \cup {req[r].file_path.val}
         /\ req' = [req EXCEPT ![r] =
                IF outcome = "written" THEN [@ EXCEPT !.pc = "send_message"]
                ELSE Raise500(@, "write")]
    /\ TimePasses
    /\ UNCHANGED <<db, llm_calls, uuid_ctr>>

\* await gemini_chat.send_message ends: its reply, or the fallback when it
\* raised, is the description; the FileMetadata is built and encoded, up to
\* the insert.
UploadSendMessage(r) ==
    /\ req[r].op = "upload" /\ req[r].pc = "send_message"
    /\ \E reply \in LlmOutcomes :
         LET a == req[r].args
             description ==
                 IF reply = NoneVal
                 THEN Str(fallback_description(a.content_type.val,
                                               a.filename.val))
                 ELSE reply
             file_metadata_ ==
                 FileMetadata(uuid4(uuid_ctr + 1), a.user_id, a.filename,
                              description, req[r].file_path, a.content_type,
                              datetime_now)
         IN  /\ llm_calls' = Append(llm_calls,
                    LlmCall(r, file_analysis_session_id(a.user_id.val),
                            "gemini-2.0-flash",
                            analysis_prompt(a.content_type.val),
                            [file_path |-> req[r].file_path.val,
                             mime_type |-> a.content_type.val],
                            reply))
             /\ req' = [req EXCEPT ![r] =
                    [@ EXCEPT !.pc = "insert_one",
                              !.description = description,
                              !.rec = file_metadata_,
                              !.doc = prepare_for_mongo(file_metadata_)]]
    /\ uuid_ctr' = uuid_ctr + 1
    /\ TimePasses
    /\ UNCHANGED <<db, uploads>>

\* await db.file_metadata.insert_one(metadata_dict) ends.
UploadInsert(r) ==
    /\ req[r].op = "upload" /\ req[r].pc = "insert_one"
    /\ \E raised \in BOOLEAN :
         IF raised
         THEN /\ req' = [req EXCEPT ![r] = Raise500(@, "insert_one")]
              /\ UNCHANGED file_metadata
         ELSE /\ file_metadata' = insert_one(file_metadata, req[r].doc)
              /\ req' = [req EXCEPT ![r] = Return(@, @.rec)]
    /\ TimePasses
    /\ UNCHANGED <<users, chat_history, search_results, uploads, llm_calls,
                   uuid_ctr>>

FilesLimit == 50

(* GET /files/{user_id}: get_user_files *)
GetUserFiles(r, user_id) ==
    /\ CanStart(r)
    /\ \E raised \in BOOLEAN, ties_natural \in BOOLEAN :
         LET q == Started("get_user_files", [user_id |-> Str(user_id)])
             files ==
                 to_list(sort(find(file_metadata, Str(user_id)),
                              "uploaded_at", -1, ties_natural), FilesLimit)
         IN  req' = [req EXCEPT ![r] =
                 IF raised THEN Raise500(q, "find")
                 ELSE Return(q, List(Decoded(files, FileMetadataFields,
                                             "uploaded_at")))]
    /\ TimePasses
    /\ UNCHANGED <<db, uploads, llm_calls, uuid_ctr>>

-----------------------------------------------------------------------------
(* POST /websearch: web_search *)

search_prompt(query) ==
    "Please provide a comprehensive and informative response about: \""
    \o query \o "\"\n\nInclude:\n1. Key information and facts\n"
    \o "2. Current context and relevance\n"
    \o "3. Multiple perspectives if applicable\n"
    \o "4. Helpful resources or suggestions\n\n"
    \o "Format your response as if you've searched the web and are "
    \o "providing a summary of the most relevant and useful information."

\* The request arrives and await db.users.find_one ends.
SearchFindUser(r, user_id, query) ==
    /\ CanStart(r)
    /\ \E raised \in BOOLEAN :
         LET q    == Started("websearch", [user_id |-> Str(user_id),
                                           query |-> Str(query)])
             user == find_one(users, "id", Str(user_id))
         IN  req' = [req EXCEPT ![r] =
                 IF raised THEN Raise500(q, "find_one")
                 ELSE IF user = NoneVal THEN RaiseHTTP(q, 404)
                 ELSE [q EXCEPT !.pc = "send_message", !.user = user]]
    /\ TimePasses
    /\ UNCHANGED <<db, uploads, llm_calls, uuid_ctr>>

\* await chat.send_message ends; on a reply the SearchResult is built and
\* encoded, up to the insert.
SearchSendMessage(r) ==
    /\ req[r].op = "websearch" /\ req[r].pc = "send_message"
    /\ \E summary \in LlmOutcomes :
         /\ llm_calls' = Append(llm_calls,
                LlmCall(r, search_session_id(req[r].args.user_id.val),
                        "gpt-5", search_prompt(req[r].args.query.val),
                        NoneVal, summary))
         /\ IF summary = NoneVal
            THEN /\ req' = [req EXCEPT ![r] = Raise500(@, "send_message")]
                 /\ UNCHANGED uuid_ctr
            ELSE LET search_result ==
                       SearchResult(uuid4(uuid_ctr + 1), req[r].args.user_id,
                                    req[r].args.query, summary, datetime_now)
                 IN  /\ req' = [req EXCEPT ![r] =
                           [@ EXCEPT !.pc = "insert_one",
                                     !.rec = search_result,
                                     !.doc = prepare_for_mongo(search_result)]]
                     /\ uuid_ctr' = uuid_ctr + 1
    /\ TimePasses
    /\ UNCHANGED <<db, uploads>>

\* await db.search_results.insert_one(result_dict) ends.
SearchInsert(r) ==
    /\ req[r].op = "websearch" /\ req[r].pc = "insert_one"
    /\ \E raised \in BOOLEAN :
         IF raised
         THEN /\ req' = [req EXCEPT ![r] = Raise500(@, "insert_one")]
              /\ UNCHANGED search_results
         ELSE /\ search_results' = insert_one(search_results, req[r].doc)
              /\ req' = [req EXCEPT ![r] = Return(@, @.rec)]
    /\ TimePasses
    /\ UNCHANGED <<users, chat_history, file_metadata, uploads, llm_calls,
                   uuid_ctr>>

SearchHistoryLimit == 50

(* GET /search/{user_id}: get_search_history *)
GetSearchHistory(r, user_id) ==
    /\ CanStart(r)
    /\ \E raised \in BOOLEAN, ties_natural \in BOOLEAN :
         LET q == Started("get_search_history", [user_id |-> Str(user_id)])
             searches ==
                 to_list(sort(find(search_results, Str(user_id)),
                              "timestamp", -1, ties_natural),
                         SearchHistoryLimit)
         IN  req' = [req EXCEPT ![r] =
                 IF raised THEN Raise500(q, "find")
                 ELSE Return(q, List(Decoded(searches, SearchResultFields,
                                             "timestamp")))]
    /\ TimePasses
    /\ UNCHANGED <<db, uploads, llm_calls, uuid_ctr>>

-----------------------------------------------------------------------------
(* The service: an empty store, then any requests, interleaved at awaits. *)

\* The store of a fresh deployment.
InitEmpty ==
    /\ users = <<>>
    /\ uuid_ctr = 0
    /\ now = 0

\* The store after one create_user has returned: its two steps have passed.
InitRegistered ==
    /\ \E user_data \in UserCreates :
         users = insert(<<>>, prepare_for_mongo(
                     User(uuid4(1), user_data, uuid4(2), utcnow(0))),
                     ObjectId(1))
    /\ uuid_ctr = 2
    /\ now = 2

Init ==
    /\ InitEmpty \/ InitRegistered
    /\ chat_history = <<>>
    /\ file_metadata = <<>>
    /\ search_results = <<>>
    /\ uploads = {}
    /\ llm_calls = <<>>
    /\ req = [r \in Slots |-> NoRequest]

Next ==
    \E r \in Slots :
        \/ \E user_data \in UserCreates : CreateUserBegin(r, user_data)
        \/ CreateUserInsert(r)
        \/ \E user_id \in UserIds : GetUser(r, user_id)
        \/ \E user_id \in UserIds, message \in Messages :
               ChatFindUser(r, user_id, message)
        \/ ChatSendMessage(r)
        \/ ChatInsert(r)
        \/ \E user_id \in UserIds : GetChatHistory(r, user_id)
        \/ \E user_id \in UserIds, filename \in Filenames,
              content_type \in ContentTypes :
               UploadFindUser(r, user_id, filename, content_type)
        \/ UploadWrite(r)
        \/ UploadSendMessage(r)
        \/ UploadInsert(r)
        \/ \E user_id \in UserIds : GetUserFiles(r, user_id)
        \/ \E user_id \in UserIds, query \in Queries :
               SearchFindUser(r, user_id, query)
        \/ SearchSendMessage(r)
        \/ SearchInsert(r)
        \/ \E user_id \in UserIds : GetSearchHistory(r, user_id)

Spec == Init /\ [][Next]_vars

-----------------------------------------------------------------------------
(* The service with two registered users (SpecHist), either right after    *)
(* their registration or after a long run: a history of PreOther chats of  *)
(* the second user, then PreChat chats and PreSearch searches of the       *)
(* first, made two at a time: the two requests of a pair read the clock    *)
(* within one tick.  llm_calls logs the calls from here on.                *)

PreTotal == PreOther + PreChat + PreSearch

\* The time at which the k-th record (from 0) was built: after the two
\* registrations (4 steps), a pair of requests every 6 steps.
PreStep(k) == 4 + 6 * (k \div 2) + 2 + (k % 2)

PreUser(n) ==
    User(uuid4(2 * n - 1), [first_name |-> Str("Ana"), username |-> NoneVal,
                            phone |-> NoneVal],
         uuid4(2 * n), utcnow((2 * (n - 1)) \div ClockResolution))

PreRecord(k) ==
    LET ts == utcnow(PreStep(k) \div ClockResolution)
        id == uuid4(5 + k)
    IN  IF k < PreOther
        THEN ChatMessage(id, Str(uuid4(3)), Str("hi"), Str("hello"), ts)
        ELSE IF k < PreOther + PreChat
        THEN ChatMessage(id, Str(uuid4(1)), Str("hi"), Str("hello"), ts)
        ELSE SearchResult(id, Str(uuid4(1)), Str("tla"), Str("hello"), ts)

PreStored(k) == Stored(prepare_for_mongo(PreRecord(k)), ObjectId(3 + k))

\* Both users have just registered.
InitYoung ==
    /\ chat_history = <<>>
    /\ search_results = <<>>
    /\ now = 4
    /\ uuid_ctr = 4

\* The history above has been made.
InitOld ==
    /\ chat_history = [i \in 1..(PreOther + PreChat) |-> PreStored(i - 1)]
    /\ search_results =
           [i \in 1..PreSearch |-> PreStored(PreOther + PreChat + i - 1)]
    /\ now = 4 + 6 * ((PreTotal + 1) \div 2)
    /\ uuid_ctr = 4 + PreTotal

InitHist ==
    /\ users = [n \in 1..2 |->
                   Stored(prepare_for_mongo(PreUser(n)), ObjectId(n))]
    /\ InitYoung \/ InitOld
    /\ file_metadata = <<>>
    /\ uploads = {}
    /\ llm_calls = <<>>
    /\ req = [r \in Slots |-> NoRequest]

NextHist ==
    \E r \in Slots :
        \/ \E message \in Messages : ChatFindUser(r, uuid4(1), message)
        \/ ChatSendMessage(r)
        \/ ChatInsert(r)
        \/ \E user_id \in UserIds : GetChatHistory(r, user_id)
        \/ \E query \in Queries : SearchFindUser(r, uuid4(1), query)
        \/ SearchSendMessage(r)
        \/ SearchInsert(r)
        \/ GetSearchHistory(r, uuid4(1))

SpecHist == InitHist /\ [][NextHist]_vars

-----------------------------------------------------------------------------
(* The storage codec alone (SpecCodec): a handler has built any record of  *)
(* one of the four models and is about to insert it; then it is read back. *)

CodecDatetimes ==
    {datetime(2024, mo, d, h, mi, sec, us, "UTC") :
        mo \in {1, 12}, d \in {1, 31}, h \in {0, 23}, mi \in {0, 59},
        sec \in {0, 59}, us \in {0, 1, 500000, 999999}}

CodecRequests(dt) ==
    {[NoRequest EXCEPT !.op = "create_user",
         !.rec = User(uuid4(1), user_data, uuid4(2), dt)] :
        user_data \in UserCreates}
    \cup {[NoRequest EXCEPT !.op = "chat",
         !.rec = ChatMessage(uuid4(3), Str(uuid4(1)), Str("hi"), Str(reply),
                             dt)] : reply \in Replies}
    \cup {[NoRequest EXCEPT !.op = "upload",
         !.rec = FileMetadata(uuid4(3), Str(uuid4(1)), Str("cat.png"),
                              Str(reply),
                              Str(upload_path(uuid4(4), "cat.png")),
                              Str("image/png"), dt)] : reply \in Replies}
    \cup {[NoRequest EXCEPT !.op = "websearch",
         !.rec = SearchResult(uuid4(3), Str(uuid4(1)), Str("tla"), Str(reply),
                              dt)] : reply \in Replies}

InitCodec ==
    /\ users = <<>>
    /\ chat_history = <<>>
    /\ file_metadata = <<>>
    /\ search_results = <<>>
    /\ uploads = {}
    /\ llm_calls = <<>>
    /\ \E dt \in CodecDatetimes : \E q \in CodecRequests(dt) :
         req = [r \in Slots |->
                   IF r = 1
                   THEN [q EXCEPT !.pc = "insert_one",
                                  !.doc = prepare_for_mongo(q.rec)]
                   ELSE NoRequest]
    /\ now = 0
    /\ uuid_ctr = 4

NextCodec ==
    \E r \in Slots :
        \/ CreateUserInsert(r)
        \/ ChatInsert(r)
        \/ UploadInsert(r)
        \/ SearchInsert(r)
        \/ GetUser(r, uuid4(1))
        \/ GetChatHistory(r, uuid4(1))
        \/ GetUserFiles(r, uuid4(1))
        \/ GetSearchHistory(r, uuid4(1))

SpecCodec == InitCodec /\ [][NextCodec]_vars

-----------------------------------------------------------------------------
(* The uploads of a registered user alone (SpecUpload): the allowed content
   types that Spec does not upload, and one that is not allowed. *)

UploadContentTypes == {"image/jpeg", "application/pdf", "text/plain"}

NextUpload ==
    \E r \in Slots :
        \/ \E filename \in Filenames, content_type \in UploadContentTypes :
               UploadFindUser(r, uuid4(1), filename, content_type)
        \/ UploadWrite(r)
        \/ UploadSendMessage(r)
        \/ UploadInsert(r)

\* The user is registered, and nothing else has happened.
InitUpload == Init /\ users # <<>>

SpecUpload == InitUpload /\ [][NextUpload]_vars

-----------------------------------------------------------------------------
(* The writers alone (SpecWriters): the chats, uploads and websearches of a
   registered user, interleaved at their awaits. *)

NextWriters ==
    \E r \in Slots :
        \/ \E message \in Messages : ChatFindUser(r, uuid4(1), message)
        \/ ChatSendMessage(r)
        \/ ChatInsert(r)
        \/ \E filename \in Filenames :
               UploadFindUser(r, uuid4(1), filename, "image/png")
        \/ UploadWrite(r)
        \/ UploadSendMessage(r)
        \/ UploadInsert(r)
        \/ \E query \in Queries : SearchFindUser(r, uuid4(1), query)
        \/ SearchSendMessage(r)
        \/ SearchInsert(r)

SpecWriters == InitUpload /\ [][NextWriters]_vars

-----------------------------------------------------------------------------
(* The chat history at its cap (SpecCap): the user has the ChatMessages
   InitOld gives, and a chat of the user made while the last of them was
   made may still wait for its insert. *)

\* The chat that built its ChatMessage in the tick in which the last
\* ChatMessage of the history was built, and still awaits its insert_one.
PendingChat ==
    LET user_id == Str(uuid4(1))
        chat_message ==
            ChatMessage(uuid4(5 + PreTotal), user_id, Str("hi"), Str("hello"),
                        PreRecord(PreOther + PreChat - 1).timestamp)
    IN  [Started("chat", [user_id |-> user_id, message |-> Str("hi")])
            EXCEPT !.pc = "insert_one",
                   !.user = find_one(users, "id", user_id),
                   !.rec = chat_message,
                   !.doc = prepare_for_mongo(chat_message)]

InitCap ==
    /\ users = [n \in 1..2 |->
                   Stored(prepare_for_mongo(PreUser(n)), ObjectId(n))]
    /\ chat_history = [i \in 1..(PreOther + PreChat) |-> PreStored(i - 1)]
    /\ search_results = <<>>
    /\ file_metadata = <<>>
    /\ uploads = {}
    /\ now = 4 + 6 * ((PreTotal + 1) \div 2)
    /\ \/ /\ req = [r \in Slots |-> NoRequest]
          /\ llm_calls = <<>>
          /\ uuid_ctr = 4 + PreTotal
       \/ /\ req = [r \in Slots |-> IF r = 1 THEN PendingChat ELSE NoRequest]
          /\ llm_calls = <<LlmCall(1, chat_session_id(uuid4(1)), "gpt-5",
                                   "hi", NoneVal, Str("hello"))>>
          /\ uuid_ctr = 5 + PreTotal

NextCap ==
    \E r \in Slots :
        \/ \E message \in Messages : ChatFindUser(r, uuid4(1), message)
        \/ ChatSendMessage(r)
        \/ ChatInsert(r)
        \/ GetChatHistory(r, uuid4(1))

SpecCap == InitCap /\ [][NextCap]_vars

-----------------------------------------------------------------------------
(* The session keys (SpecKeys): two registered users, and requests that
   name them or name one of their keys as the user. *)

KeyUserIds ==
    {uuid4(1), uuid4(3), search_session_id(uuid4(1)),
     file_analysis_session_id(uuid4(3))}

\* Both users have just registered.
InitKeys == InitHist /\ InitYoung

\* The handlers up to their model call: the store writes that follow stay
\* awaited.
NextKeys ==
    \E r \in Slots :
        \/ \E user_id \in KeyUserIds, message \in Messages :
               ChatFindUser(r, user_id, message)
        \/ ChatSendMessage(r)
        \/ \E user_id \in KeyUserIds, filename \in Filenames :
               UploadFindUser(r, user_id, filename, "image/png")
        \/ UploadWrite(r)
        \/ UploadSendMessage(r)
        \/ \E user_id \in KeyUserIds, query \in Queries :
               SearchFindUser(r, user_id, query)
        \/ SearchSendMessage(r)

SpecKeys == InitKeys /\ [][NextKeys]_vars

-----------------------------------------------------------------------------
(* The claims. *)

Features == {"chat", "upload", "websearch"}

\* The calls slot r made to a model backend.
CallsOf(r) == {i \in 1..Len(llm_calls) : llm_calls[i].req = r}

\* The slot's analysis call raised.
AnalysisRaised(r) ==
    /\ req[r].op = "upload"
    /\ \E i \in CallsOf(r) : llm_calls[i].reply = NoneVal

\* The documents of a collection that carry the id of the slot's record.
DocsOf(coll, r) ==
    {i \in 1..Len(coll) : req[r].rec # NoneVal /\ coll[i].id = req[r].rec.id}

\* The slot's upload is of a content type outside JPEG, PNG and PDF, by a user
\* the lookup found.
RejectedType(r) ==
    /\ req[r].op = "upload"
    /\ req[r].user # NoneVal
    /\ req[r].args.content_type.val
           \notin {"image/jpeg", "image/png", "application/pdf"}

\* C1: an upload by an existing user (the lookup found the user) whose
\* declared content type is not image/jpeg, image/png or application/pdf ends
\* with a 400, builds no FileMetadata and derives no path to write to; every
\* FileMetadata in the store has one of the three content types, and every
\* file in the upload directory is the file of an upload of such a type.
C1_UploadTypeGate ==
    /\ \A r \in Slots :
         RejectedType(r) =>
            /\ req[r].pc = "done"
            /\ req[r].status_code = 400
            /\ req[r].rec = NoneVal
            /\ req[r].file_path = NoneVal
    /\ \A i \in 1..Len(file_metadata) :
         file_metadata[i].file_type.val
             \in {"image/jpeg", "image/png", "application/pdf"}
    /\ \A f \in uploads :
         \E r \in Slots : /\ req[r].op = "upload"
                          /\ req[r].file_path = Str(f)
                          /\ ~RejectedType(r)

\* C1's case: a text/plain upload by a registered user was answered, while
\* another upload of that user wrote its file.
C1_Witness ==
    \E r, q \in Slots :
        /\ RejectedType(r) /\ req[r].args.content_type.val = "text/plain"
        /\ req[r].pc = "done"
        /\ req[q].op = "upload" /\ req[q].file_path # NoneVal
        /\ req[q].file_path.val \in uploads

\* The fallback template, from the request's content type and filename.
FallbackOf(r) ==
    Str("Uploaded " \o req[r].args.content_type.val \o " file: "
        \o req[r].args.filename.val)

\* C2 as stated: an upload whose analysis raised returns success, with
\* exactly one FileMetadata persisted, carrying the fallback description.
C2_Original ==
    \A r \in Slots :
        (AnalysisRaised(r) /\ req[r].pc = "done") =>
            /\ req[r].status_code = 200
            /\ Cardinality(DocsOf(file_metadata, r)) = 1
            /\ \A i \in DocsOf(file_metadata, r) :
                 file_metadata[i].description = FallbackOf(r)

\* C2, amended: an upload whose analysis raised goes on to the store write
\* with the fallback description built from the declared content type and
\* the original filename, and the analysis failure never reaches the caller:
\* the upload returns success with exactly one FileMetadata persisted, of
\* that description, unless the store write itself raised, and then it ends
\* with a 500 and no FileMetadata persisted.
C2_AnalysisFallback ==
    \A r \in Slots :
        AnalysisRaised(r) =>
            /\ req[r].pc \in {"insert_one", "done"}
            /\ req[r].rec.description = FallbackOf(r)
            /\ req[r].exc \in {"", "insert_one"}
            /\ (req[r].pc = "done" /\ req[r].exc = "") =>
                  /\ req[r].status_code = 200
                  /\ req[r].body = req[r].rec
                  /\ Cardinality(DocsOf(file_metadata, r)) = 1
                  /\ \A i \in DocsOf(file_metadata, r) :
                       file_metadata[i].description = FallbackOf(r)
            /\ (req[r].pc = "done" /\ req[r].exc = "insert_one") =>
                  /\ req[r].status_code = 500
                  /\ DocsOf(file_metadata, r) = {}

\* C2's case: an upload whose analysis raised has returned success.
C2_Witness ==
    \E r \in Slots :
        /\ AnalysisRaised(r)
        /\ req[r].pc = "done" /\ req[r].status_code = 200
        /\ DocsOf(file_metadata, r) # {}

\* No user of the store has this id.
UserAbsent(user_id) == \A i \in 1..Len(users) : users[i].id # user_id

\* The records of the three histories.
Histories == <<chat_history, file_metadata, search_results>>

\* C3: a chat, upload or websearch whose user id is not the id of a user in
\* the store (and whose lookup answered) ends with a 404; a request that
\* ended with a 404 has made no model-backend call, derived no file path and
\* built no record; and every record of the three histories is owned by a
\* user of the store.
C3_MissingUser ==
    /\ \A r \in Slots :
         (/\ req[r].op \in Features
          /\ req[r].exc # "find_one"
          /\ UserAbsent(req[r].args.user_id)) =>
            (req[r].pc = "done" /\ req[r].status_code = 404)
    /\ \A r \in Slots :
         (req[r].op \in Features /\ req[r].status_code = 404) =>
            /\ CallsOf(r) = {}
            /\ req[r].file_path = NoneVal
            /\ req[r].rec = NoneVal
    /\ \A h \in 1..3 : \A i \in 1..Len(Histories[h]) :
         ~UserAbsent(Histories[h][i].user_id)

\* C3's case: with a user registered, each feature has answered 404 to a
\* request naming another id.
C3_Witness ==
    /\ users # <<>>
    /\ \E r, q \in Slots :
         /\ req[r].op \in Features /\ req[q].op \in Features
         /\ req[r].op # req[q].op
         /\ req[r].status_code = 404 /\ req[q].status_code = 404

\* The slot's backend call raised.
BackendRaised(r) == \E i \in CallsOf(r) : llm_calls[i].reply = NoneVal

\* Some request's successful backend call returned `text` for this record.
ReturnedBy(doc, op, text) ==
    \E r \in Slots : \E i \in CallsOf(r) :
        /\ req[r].op = op
        /\ req[r].rec # NoneVal /\ req[r].rec.id = doc.id
        /\ req[r].args.user_id = doc.user_id
        /\ llm_calls[i].reply # NoneVal
        /\ llm_calls[i].reply = text

\* C4: a chat or websearch whose backend call raised ends with a 500 and has
\* built no record; every ChatMessage of the store carries the response, and
\* every SearchResult the summary, that a successful backend call of the
\* request that made it returned.
C4_BackendFailure ==
    /\ \A r \in Slots :
         (req[r].op \in {"chat", "websearch"} /\ BackendRaised(r)) =>
            /\ req[r].pc = "done"
            /\ req[r].status_code = 500
            /\ req[r].rec = NoneVal
    /\ \A i \in 1..Len(chat_history) :
         ReturnedBy(chat_history[i], "chat", chat_history[i].response)
    /\ \A i \in 1..Len(search_results) :
         ReturnedBy(search_results[i], "websearch", search_results[i].summary)

\* C4's case: a chat's backend call raised after a websearch of the same
\* user was persisted (or the other way round).
C4_Witness ==
    \E r, q \in Slots :
        /\ req[r].op \in {"chat", "websearch"} /\ BackendRaised(r)
        /\ req[r].pc = "done"
        /\ req[q].op \in {"chat", "websearch"} /\ req[q].op # req[r].op
        /\ req[q].status_code = 200

\* The timestamp a is not after b: both are UTC.
NotAfter(a, b) ==
    LET s == <<a.year, a.month, a.day, a.hour, a.minute, a.second,
               a.microsecond>>
        t == <<b.year, b.month, b.day, b.hour, b.minute, b.second,
               b.microsecond>>
    IN  \/ s = t
        \/ \E i \in 1..7 : s[i] < t[i] /\ \A j \in 1..(i - 1) : s[j] = t[j]

\* The documents of a collection that user_id owns.
OwnedBy(coll, user_id) == {k \in 1..Len(coll) : coll[k].user_id = user_id}

\* Slot r takes a read `op` in this step, and the read returns.
Reads(r, op) ==
    /\ req[r].pc = "idle"
    /\ req'[r].op = op
    /\ req'[r].status_code = 200

\* C5: a read of a user's search history that returns, in a store holding the
\* SearchResults of n persisted websearch invocations of that user, returns
\* exactly min(n, 50) records, each the decoded form of a different one of
\* those n, in non-increasing order of timestamp, and no record left out has
\* a timestamp after that of a record returned.
C5_SearchHistoryCap ==
    [][\A r \in Slots :
         Reads(r, "get_search_history") =>
            LET owned == OwnedBy(search_results, req'[r].args.user_id)
                n     == Cardinality(owned)
                items == req'[r].body.items
                time(k) == fromisoformat(search_results[k].timestamp.val)
            IN  /\ Len(items) = IF n < 50 THEN n ELSE 50
                /\ \A i \in 1..(Len(items) - 1) :
                     NotAfter(items[i + 1].timestamp, items[i].timestamp)
                /\ \A i \in 1..Len(items) : \E k \in owned :
                     /\ items[i].id = search_results[k].id
                     /\ items[i].user_id = search_results[k].user_id
                     /\ items[i].query = search_results[k].query
                     /\ items[i].summary = search_results[k].summary
                     /\ items[i].timestamp = time(k)
                /\ \A i, j \in 1..Len(items) :
                     i # j => items[i].id # items[j].id
                /\ \A k \in owned :
                     (\A i \in 1..Len(items) :
                          items[i].id # search_results[k].id)
                     => \A i \in 1..Len(items) :
                          NotAfter(time(k), items[i].timestamp)
      ]_vars

\* C5's case: a read after the user's 51st websearch (or a later one) was
\* persisted returned 50 records, the new one first.
C5_Witness ==
    \E r, q \in Slots :
        /\ req[r].op = "get_search_history" /\ req[r].status_code = 200
        /\ req[q].op = "websearch" /\ req[q].status_code = 200
        /\ Cardinality(OwnedBy(search_results, req[r].args.user_id)) > 50
        /\ Len(req[r].body.items) = 50
        /\ req[r].body.items[1] = req[q].rec

\* C6: the list a read of a user's chat history returned has at most 100
\* ChatMessages, each owned by the user the read names, in non-decreasing
\* order of timestamp.
C6_ChatHistoryRead ==
    \A r \in Slots :
        (req[r].op = "get_chat_history" /\ req[r].status_code = 200) =>
            LET items == req[r].body.items
            IN  /\ Len(items) <= 100
                /\ \A i \in 1..Len(items) :
                     items[i].user_id = req[r].args.user_id
                /\ \A i \in 1..(Len(items) - 1) :
                     NotAfter(items[i].timestamp, items[i + 1].timestamp)

\* C6's case: a read returned 100 of a user's more than 100 ChatMessages,
\* kept in a store that holds another user's too.
C6_Witness ==
    \E r \in Slots :
        /\ req[r].op = "get_chat_history" /\ req[r].status_code = 200
        /\ Len(req[r].body.items) = 100
        /\ Cardinality(OwnedBy(chat_history, req[r].args.user_id)) > 100
        /\ \E k \in 1..Len(chat_history) :
             chat_history[k].user_id # req[r].args.user_id

\* Slot q's chat has returned ChatMessage m for user_id: its message is the
\* request's text and its response the backend's.
Chatted(q, user_id) ==
    /\ req[q].op = "chat"
    /\ req[q].status_code = 200
    /\ req[q].args.user_id = user_id
    /\ req[q].body.message = req[q].args.message
    /\ \E i \in CallsOf(q) : llm_calls[i].reply = req[q].body.response

\* C7 as stated: a read of a user's chat history that returns after a chat of
\* that user has returned ChatMessage m has an entry equal to m in every
\* field; and it is the list [m] when m is the user's only ChatMessage.
C7_ReadYourWrite ==
    [][\A r \in Slots :
         Reads(r, "get_chat_history") =>
            \A q \in Slots :
                Chatted(q, req'[r].args.user_id) =>
                    LET items == req'[r].body.items
                        owned == OwnedBy(chat_history, req[q].args.user_id)
                    IN  /\ \E i \in 1..Len(items) : items[i] = req[q].body
                        /\ Cardinality(owned) = 1
                               => items = <<req[q].body>>
      ]_vars

\* The record the first slot built and inserts.
Encoded == req[1].rec

\* C8: a record of each of the four models that was encoded with
\* prepare_for_mongo and inserted is, read back and decoded, a record equal
\* to it in every field: get_user returns it, and each history read returns
\* the one-element list of it.
C8_CodecRoundTrip ==
    \A r \in Slots :
        /\ (req[r].op = "get_user" /\ req[r].status_code = 200)
               => req[r].body = Encoded
        /\ (/\ req[r].op \in {"get_chat_history", "get_user_files",
                              "get_search_history"}
            /\ req[r].status_code = 200
            /\ req[r].body.items # <<>>)
               => req[r].body.items = <<Encoded>>

\* C8's case: a record with microseconds in its timestamp, ending 23:59:59 of
\* 31 December, was read back.
C8_Witness ==
    \E r \in Slots \ {1} :
        /\ req[r].status_code = 200
        /\ \/ req[r].op = "get_user" /\ req[r].body.phone = NoneVal
           \/ /\ req[r].op \in {"get_chat_history", "get_user_files",
                                "get_search_history"}
              /\ req[r].body.items # <<>>
        /\ \E dt \in CodecDatetimes :
             /\ dt.microsecond = 1 /\ dt.month = 12 /\ dt.second = 59
             /\ \/ req[r].op = "get_user" /\ Encoded.created_at = dt
                \/ req[r].op = "get_user_files" /\ Encoded.uploaded_at = dt
                \/ /\ req[r].op \in {"get_chat_history",
                                     "get_search_history"}
                   /\ Encoded.timestamp = dt

\* The key the claim gives the feature of a request for user u.
KeyOf(op, u) ==
    IF op = "chat" THEN u
    ELSE IF op = "upload" THEN u \o "_file_analysis"
    ELSE u \o "_search"

\* C9: every call made to a model backend by a chat, upload or websearch for
\* user u has the feature's key: u for the chat, u with the suffix
\* "_file_analysis" for the upload, u with the suffix "_search" for the
\* websearch; and two calls made for one user by different features have
\* different keys.
C9_ContextKeys ==
    /\ \A i \in 1..Len(llm_calls) :
         LET q == req[llm_calls[i].req]
         IN  /\ q.op \in Features
             /\ llm_calls[i].session_id = KeyOf(q.op, q.args.user_id.val)
    /\ \A i, j \in 1..Len(llm_calls) :
         LET q == req[llm_calls[i].req]
             p == req[llm_calls[j].req]
         IN  (q.args.user_id = p.args.user_id /\ q.op # p.op)
                 => llm_calls[i].session_id # llm_calls[j].session_id

\* C9's case: a websearch and another feature have called for the same user.
C9_Witness ==
    \E i, j \in 1..Len(llm_calls) :
        /\ req[llm_calls[i].req].op = "websearch"
        /\ req[llm_calls[j].req].op \in {"chat", "upload"}
        /\ req[llm_calls[i].req].args.user_id
               = req[llm_calls[j].req].args.user_id

\* C10 as stated: of a chat, upload or websearch whose store write raised,
\* which ends with a 500, nothing remains: no record of it in its collection
\* and no file of it in the upload directory.
C10_WriteFailureLeavesNothing ==
    \A r \in Slots :
        (req[r].op \in Features /\ req[r].exc = "insert_one") =>
            /\ req[r].status_code = 500
            /\ DocsOf(chat_history, r) = {}
            /\ DocsOf(file_metadata, r) = {}
            /\ DocsOf(search_results, r) = {}
            /\ req[r].file_path # NoneVal => req[r].file_path.val \notin uploads

\* C11 as stated: every FileMetadata of the store has a description that is
\* not the empty text, whether the analysis raised or returned any text.
C11_DescriptionNonEmpty ==
    \A i \in 1..Len(file_metadata) : file_metadata[i].description.val # ""

\* The collection of a feature.
CollectionOf(op) ==
    IF op = "chat" THEN chat_history
    ELSE IF op = "upload" THEN file_metadata
    ELSE search_results

\* The document without the store's _id.
Unstored(d) == [k \in DOMAIN d \ {"_id"} |-> d[k]]

\* The identifiers of the records of the store, one per record.
RecordIds ==
    [k \in 1..Len(chat_history) |-> chat_history[k].id]
    \o [k \in 1..Len(file_metadata) |-> file_metadata[k].id]
    \o [k \in 1..Len(search_results) |-> search_results[k].id]
    \o [k \in 1..Len(users) |-> users[k].id]

\* No request is between its first and its last step.
Quiescent == \A r \in Slots : req[r].pc \in {"idle", "done"}

\* The collection is as it was, with documents added at its end only.
Extends(old, new) ==
    /\ Len(old) <= Len(new)
    /\ \A k \in 1..Len(old) : new[k] = old[k]

\* C12: with the chat, upload and websearch invocations interleaved at their
\* store read, model call, file write and store write in any way, every
\* invocation that returned success has exactly one record in its feature's
\* collection, the encoded form of the record it returned, under an
\* identifier no other record of the store has; no step changes or removes a
\* record that was persisted; and when no invocation is in flight each
\* history collection holds exactly the records the successful invocations
\* of its feature returned.
C12_ConcurrentWriters ==
    /\ [](/\ \A r \in Slots :
               (req[r].op \in Features /\ req[r].status_code = 200) =>
                   LET coll == CollectionOf(req[r].op)
                   IN  /\ Cardinality(DocsOf(coll, r)) = 1
                       /\ \A k \in DocsOf(coll, r) :
                            Unstored(coll[k]) = prepare_for_mongo(req[r].body)
                       /\ Cardinality({k \in 1..Len(RecordIds) :
                                          RecordIds[k] = req[r].body.id}) = 1
          /\ Quiescent =>
               \A op \in Features :
                   {Unstored(CollectionOf(op)[k]) :
                        k \in 1..Len(CollectionOf(op))}
                   = {prepare_for_mongo(req[r].body) :
                        r \in {q \in Slots : /\ req[q].op = op
                                             /\ req[q].status_code = 200}})
    /\ [][/\ Extends(chat_history, chat_history')
          /\ Extends(file_metadata, file_metadata')
          /\ Extends(search_results, search_results')]_vars

\* C12's case: two invocations of one feature for one user ran interleaved
\* and both returned success: the one that started later persisted first.
C12_Witness ==
    \E r, q \in Slots :
        /\ r < q
        /\ req[r].op \in Features /\ req[q].op = req[r].op
        /\ req[r].args.user_id = req[q].args.user_id
        /\ req[r].status_code = 200 /\ req[q].status_code = 200
        /\ \E i \in DocsOf(CollectionOf(req[r].op), r) :
             \E j \in DocsOf(CollectionOf(req[r].op), q) : j < i

\* The returned list is 100 of the oldest ChatMessages of the user: each the
\* decoded form of a different one of the user's documents, and none left
\* out is before one returned.
OldestHundred(items, user_id) ==
    LET owned == OwnedBy(chat_history, user_id)
        time(k) == fromisoformat(chat_history[k].timestamp.val)
    IN  /\ Len(items) = 100
        /\ \A i \in 1..Len(items) : \E k \in owned :
             /\ items[i].id = chat_history[k].id
             /\ items[i].user_id = chat_history[k].user_id
             /\ items[i].message = chat_history[k].message
             /\ items[i].response = chat_history[k].response
             /\ items[i].timestamp = time(k)
        /\ \A i, j \in 1..Len(items) : i # j => items[i].id # items[j].id
        /\ \A k \in owned :
             (\A i \in 1..Len(items) : items[i].id # chat_history[k].id)
             => \A i \in 1..Len(items) :
                  NotAfter(items[i].timestamp, time(k))

\* The ChatMessages of the user, other than m, made before m was.
MadeBefore(m, user_id) ==
    {k \in OwnedBy(chat_history, user_id) :
        /\ chat_history[k].id # m.id
        /\ fromisoformat(chat_history[k].timestamp.val) # m.timestamp
        /\ NotAfter(fromisoformat(chat_history[k].timestamp.val),
                    m.timestamp)}

\* C13 as stated: a read of the chat history of a user with more than 100
\* ChatMessages returns the 100 oldest of them, and no ChatMessage that a
\* chat of that user has returned since the user had 100 is in it.
C13_Original ==
    [][\A r \in Slots :
         (/\ Reads(r, "get_chat_history")
          /\ Cardinality(OwnedBy(chat_history, req'[r].args.user_id)) > 100)
         => /\ OldestHundred(req'[r].body.items, req'[r].args.user_id)
            /\ \A q \in Slots :
                 Chatted(q, req'[r].args.user_id) =>
                     \A i \in 1..Len(req'[r].body.items) :
                         req'[r].body.items[i].id # req[q].body.id
      ]_vars

\* C13, amended: a read of the chat history of a user with more than 100
\* ChatMessages returns 100 of the oldest of them (ascending sort, then
\* limit 100; among equal timestamps the store's order decides), so a
\* ChatMessage returned by a chat of that user is absent from a read that
\* follows it whenever 100 or more of the user's other ChatMessages have an
\* earlier timestamp.
C13_OldestHundred ==
    [][\A r \in Slots :
         (/\ Reads(r, "get_chat_history")
          /\ Cardinality(OwnedBy(chat_history, req'[r].args.user_id)) > 100)
         => /\ OldestHundred(req'[r].body.items, req'[r].args.user_id)
            /\ \A q \in Slots :
                 (/\ Chatted(q, req'[r].args.user_id)
                  /\ Cardinality(MadeBefore(req[q].body,
                                            req'[r].args.user_id)) >= 100)
                 => \A i \in 1..Len(req'[r].body.items) :
                        req'[r].body.items[i].id # req[q].body.id
      ]_vars

\* C13's case: the user's 101st ChatMessage was returned by a chat, and the
\* read that followed returned 100 ChatMessages without it.
C13_Witness ==
    \E r, q \in Slots :
        /\ q < r
        /\ req[r].op = "get_chat_history" /\ req[r].status_code = 200
        /\ Chatted(q, req[r].args.user_id)
        /\ Cardinality(MadeBefore(req[q].body, req[r].args.user_id)) >= 100
        /\ Len(req[r].body.items) = 100
        /\ \A i \in 1..100 : req[r].body.items[i].id # req[q].body.id

\* The key the code derives for a feature and a user.
SessionId(op, user_id) ==
    IF op = "chat" THEN chat_session_id(user_id)
    ELSE IF op = "upload" THEN file_analysis_session_id(user_id)
    ELSE search_session_id(user_id)

\* The ids of the users of the store.
Registered == {users[k].id.val : k \in 1..Len(users)}

\* C14: the keys derived for two registered users and two features are equal
\* only for the same user and the same feature; every call made to a model
\* backend was made for a registered user, under the key of that user and
\* the request's feature; and two calls made under one key were made for the
\* same user by the same feature.
C14_UserIsolation ==
    /\ \A u1, u2 \in Registered : \A f1, f2 \in Features :
         SessionId(f1, u1) = SessionId(f2, u2) => (u1 = u2 /\ f1 = f2)
    /\ \A i \in 1..Len(llm_calls) :
         LET q == req[llm_calls[i].req]
         IN  /\ q.args.user_id.val \in Registered
             /\ llm_calls[i].session_id = SessionId(q.op, q.args.user_id.val)
    /\ \A i, j \in 1..Len(llm_calls) :
         LET q == req[llm_calls[i].req]
             p == req[llm_calls[j].req]
         IN  llm_calls[i].session_id = llm_calls[j].session_id
                 => (q.args.user_id = p.args.user_id /\ q.op = p.op)

\* C14's case: a feature has called for a user, and a request of another
\* feature that named that call's key as its user has ended.
C14_Witness ==
    \E i \in 1..Len(llm_calls) : \E r \in Slots :
        /\ req[r].op \in Features
        /\ req[r].op # req[llm_calls[i].req].op
        /\ req[r].pc = "done"
        /\ req[r].args.user_id.val = llm_calls[i].session_id
        /\ req[r].args.user_id.val \notin Registered

=============================================================================
